---- MODULE Spec2Model ----
(***************************************************************************)
(* Model of tb-lint: the case utilities (src/src/utils/caseUtils.ts), the   *)
(* two lint rules of the tinybird-case plugin, the Tinybird file parsers   *)
(* (src/src/tb-lint/parsers.ts) and the command line linter.               *)
(*                                                                         *)
(* A JavaScript string is modelled as a sequence of characters, each       *)
(* character being a one-character TLA+ string.  Regular expressions are   *)
(* modelled by what they match; String.prototype.replace with a /g regex   *)
(* is modelled as the left-to-right scan over non-overlapping matches      *)
(* that the engine performs.                                               *)
(***************************************************************************)
EXTENDS Integers, Sequences, FiniteSets, TLC

\* ------------------------------------------------------------------------
\* Bounds
\* ------------------------------------------------------------------------

\* Longest input string handed to the utilities.
MaxLen == 5

\* Longest key of a property of an object literal handed to the lint rules.
MaxKeyLen == 3

\* Most files of a directory that is linted.
MaxFiles == 2

\* Most lines of a .datasource file.
MaxLines == 4

\* Most lines of a .pipe or .incl file.
MaxPipeLines == 2

\* ------------------------------------------------------------------------
\* Characters and character classes used by the regular expressions
\* ------------------------------------------------------------------------

\* The ASCII letters, in alphabetical order.
LowerSeq ==
    <<"a", "b", "c", "d", "e", "f", "g", "h", "i", "j", "k", "l", "m",
      "n", "o", "p", "q", "r", "s", "t", "u", "v", "w", "x", "y", "z">>

UpperSeq ==
    <<"A", "B", "C", "D", "E", "F", "G", "H", "I", "J", "K", "L", "M",
      "N", "O", "P", "Q", "R", "S", "T", "U", "V", "W", "X", "Y", "Z">>

\* [a-z]
LowerChars == {LowerSeq[i] : i \in 1..26}

\* [A-Z]
UpperChars == {UpperSeq[i] : i \in 1..26}

\* [0-9]
DigitChars == {"0", "1", "2", "3", "4", "5", "6", "7", "8", "9"}

\* Characters that are neither ASCII letters, digits nor underscore:
\* "-" stands for the ASCII symbols, "é" for non-ASCII characters.
OtherChars == {"-", "é"}

\* The characters the arguments of the case utilities are drawn from.
Chars == {"a", "b", "A", "B", "1", "_"} \cup OtherChars

\* The lowercase / uppercase counterpart of each ASCII letter.
LowerOfUpper == [c \in UpperChars |-> LowerSeq[CHOOSE i \in 1..26 : UpperSeq[i] = c]]

UpperOfLower == [c \in LowerChars |-> UpperSeq[CHOOSE i \in 1..26 : LowerSeq[i] = c]]

\* String.prototype.toLowerCase on one character.
LowerOf(c) ==
    IF c \in UpperChars THEN LowerOfUpper[c]
    ELSE IF c = "É" THEN "é"
    ELSE c

\* String.prototype.toUpperCase on one character.
UpperOf(c) ==
    IF c \in LowerChars THEN UpperOfLower[c]
    ELSE IF c = "é" THEN "É"
    ELSE c

\* String.prototype.toLowerCase
toLowerCase(s) == [i \in 1..Len(s) |-> LowerOf(s[i])]

\* Concatenation of the pieces piece[1] .. piece[n].
RECURSIVE Concat(_, _)
Concat(piece, n) ==
    IF n = 0 THEN <<>> ELSE Concat(piece, n - 1) \o piece[n]

\* All strings over Chars of length at most n.
StringsUpTo(n) == UNION {[1..k -> Chars] : k \in 0..n}

\* ------------------------------------------------------------------------
\* caseUtils.ts
\* ------------------------------------------------------------------------

\* /^[a-z]/.test(name)
StartsLower(name) == Len(name) > 0 /\ name[1] \in LowerChars

\* MatchesCamel with \w in place of [a-zA-Z0-9]: underscores are let through.
MatchesCamel_wordChars(name) ==
    /\ StartsLower(name)
    /\ \A i \in 2..Len(name) :
          name[i] \in LowerChars \cup UpperChars \cup DigitChars \cup {"_"}

\* /^[a-z][a-zA-Z0-9]*$/.test(name)
MatchesCamel(name) ==
    /\ StartsLower(name)
    /\ \A i \in 2..Len(name) :
          name[i] \in LowerChars \cup UpperChars \cup DigitChars

\* MatchesSnake with the /i flag: uppercase letters are let through.
MatchesSnake_ignoreCase(name) ==
    /\ StartsLower(name)
    /\ \A i \in 2..Len(name) :
          name[i] \in LowerChars \cup UpperChars \cup DigitChars \cup {"_"}

\* /^[a-z][a-z0-9_]*$/.test(name)
MatchesSnake(name) ==
    /\ StartsLower(name)
    /\ \A i \in 2..Len(name) :
          name[i] \in LowerChars \cup DigitChars \cup {"_"}

\* /__/.test(name)
HasDoubleUnderscore(name) ==
    \E i \in 1..(Len(name) - 1) : name[i] = "_" /\ name[i + 1] = "_"

\* name.endsWith('_')
EndsWithUnderscore(name) == Len(name) > 0 /\ name[Len(name)] = "_"

\* isCamelCase without its second test, /^[a-z][a-zA-Z0-9]*$/.
isCamelCase_firstTestOnly(name) ==
    IF Len(name) = 0 THEN FALSE
    ELSE IF ~StartsLower(name) THEN FALSE
    ELSE TRUE

\* isCamelCase with /^[a-zA-Z]/ and /^[a-zA-Z][a-zA-Z0-9]*$/ as its tests:
\* an uppercase first letter is let through.
isCamelCase_anyFirstLetter(name) ==
    /\ Len(name) > 0
    /\ \A i \in 1..Len(name) :
          name[i] \in LowerChars \cup UpperChars \cup DigitChars
    /\ name[1] \notin DigitChars

isCamelCase(name) ==
    IF Len(name) = 0 THEN FALSE
    ELSE IF ~StartsLower(name) THEN FALSE
    ELSE IF ~MatchesCamel(name) THEN FALSE
    ELSE TRUE

\* isSnakeCase without the name.endsWith('_') test.
isSnakeCase_trailingUnderscore(name) ==
    IF Len(name) = 0 THEN FALSE
    ELSE IF ~StartsLower(name) THEN FALSE
    ELSE IF ~MatchesSnake(name) THEN FALSE
    ELSE IF HasDoubleUnderscore(name) THEN FALSE
    ELSE TRUE

isSnakeCase(name) ==
    IF Len(name) = 0 THEN FALSE
    ELSE IF ~StartsLower(name) THEN FALSE
    ELSE IF ~MatchesSnake(name) THEN FALSE
    ELSE IF HasDoubleUnderscore(name) \/ EndsWithUnderscore(name) THEN FALSE
    ELSE TRUE

\* ReplaceLowerUpper with [a-z] in place of [a-z0-9]: no underscore after a
\* digit.
RECURSIVE ReplaceLowerUpper_noDigit(_, _)
ReplaceLowerUpper_noDigit(s, i) ==
    IF i > Len(s) THEN <<>>
    ELSE IF /\ i + 1 <= Len(s)
            /\ s[i] \in LowerChars
            /\ s[i + 1] \in UpperChars
         THEN <<s[i], "_", s[i + 1]>> \o ReplaceLowerUpper_noDigit(s, i + 2)
         ELSE <<s[i]>> \o ReplaceLowerUpper_noDigit(s, i + 1)

\* .replace(/([a-z0-9])([A-Z])/g, '$1_$2'), scanning from position i
RECURSIVE ReplaceLowerUpper(_, _)
ReplaceLowerUpper(s, i) ==
    IF i > Len(s) THEN <<>>
    ELSE IF /\ i + 1 <= Len(s)
            /\ s[i] \in LowerChars \cup DigitChars
            /\ s[i + 1] \in UpperChars
         THEN <<s[i], "_", s[i + 1]>> \o ReplaceLowerUpper(s, i + 2)
         ELSE <<s[i]>> \o ReplaceLowerUpper(s, i + 1)

\* .replace(/([A-Z])([A-Z][a-z])/g, '$1_$2'), scanning from position i
RECURSIVE ReplaceUpperUpperLower(_, _)
ReplaceUpperUpperLower(s, i) ==
    IF i > Len(s) THEN <<>>
    ELSE IF /\ i + 2 <= Len(s)
            /\ s[i] \in UpperChars
            /\ s[i + 1] \in UpperChars
            /\ s[i + 2] \in LowerChars
         THEN <<s[i], "_", s[i + 1], s[i + 2]>>
                  \o ReplaceUpperUpperLower(s, i + 3)
         ELSE <<s[i]>> \o ReplaceUpperUpperLower(s, i + 1)

\* camelToSnake without the final toLowerCase().
camelToSnake_noLowerCase(name) ==
    IF Len(name) = 0 THEN name
    ELSE ReplaceUpperUpperLower(ReplaceLowerUpper(name, 1), 1)

\* camelToSnake without its second replace (the acronym rule).
camelToSnake_noAcronymPass(name) ==
    IF Len(name) = 0 THEN name
    ELSE toLowerCase(ReplaceLowerUpper(name, 1))

camelToSnake(name) ==
    IF Len(name) = 0 THEN name
    ELSE toLowerCase(ReplaceUpperUpperLower(ReplaceLowerUpper(name, 1), 1))

\* ReplaceUnderscoreChar with [a-z] in place of [a-z0-9]: an underscore
\* before a digit stays.
RECURSIVE ReplaceUnderscoreChar_lettersOnly(_, _)
ReplaceUnderscoreChar_lettersOnly(s, i) ==
    IF i > Len(s) THEN <<>>
    ELSE IF /\ i + 1 <= Len(s)
            /\ s[i] = "_"
            /\ s[i + 1] \in LowerChars
         THEN <<UpperOf(s[i + 1])>>
                  \o ReplaceUnderscoreChar_lettersOnly(s, i + 2)
         ELSE <<s[i]>> \o ReplaceUnderscoreChar_lettersOnly(s, i + 1)

\* ReplaceUnderscoreChar whose callback returns char, not char.toUpperCase().
RECURSIVE ReplaceUnderscoreChar_keepCase(_, _)
ReplaceUnderscoreChar_keepCase(s, i) ==
    IF i > Len(s) THEN <<>>
    ELSE IF /\ i + 1 <= Len(s)
            /\ s[i] = "_"
            /\ s[i + 1] \in LowerChars \cup DigitChars
         THEN <<s[i + 1]>> \o ReplaceUnderscoreChar_keepCase(s, i + 2)
         ELSE <<s[i]>> \o ReplaceUnderscoreChar_keepCase(s, i + 1)

\* .replace(/_([a-z0-9])/g, (_, char) => char.toUpperCase()), from position i
RECURSIVE ReplaceUnderscoreChar(_, _)
ReplaceUnderscoreChar(s, i) ==
    IF i > Len(s) THEN <<>>
    ELSE IF /\ i + 1 <= Len(s)
            /\ s[i] = "_"
            /\ s[i + 1] \in LowerChars \cup DigitChars
         THEN <<UpperOf(s[i + 1])>> \o ReplaceUnderscoreChar(s, i + 2)
         ELSE <<s[i]>> \o ReplaceUnderscoreChar(s, i + 1)

\* snakeToCamel that also uppercases the first character (PascalCase).
snakeToCamel_pascal(name) ==
    IF Len(name) = 0 THEN name
    ELSE ReplaceUnderscoreChar(<<"_">> \o toLowerCase(name), 1)

\* snakeToCamel without the leading toLowerCase().
snakeToCamel_noLowerCase(name) ==
    IF Len(name) = 0 THEN name
    ELSE ReplaceUnderscoreChar(name, 1)

snakeToCamel(name) ==
    IF Len(name) = 0 THEN name
    ELSE ReplaceUnderscoreChar(toLowerCase(name), 1)

\* validateMapping that also insists on a camelCase key.
validateMapping_checksKey(camelName, snakeName) ==
    isCamelCase(camelName) /\ camelToSnake(camelName) = snakeName

validateMapping(camelName, snakeName) == camelToSnake(camelName) = snakeName

\* ------------------------------------------------------------------------
\* State: one call of one exported function on an input drawn at Init
\* ------------------------------------------------------------------------

VARIABLES
    name,      \* the string argument (camelName for validateMapping)
    value,     \* snakeName, the second argument of validateMapping
    op,        \* the function that has been called, "none" before the call
    result,    \* what the call returned (for a rule: what it reported)
    node,      \* the ObjectExpression node handed to a lint rule
    content,   \* the text of the file handed to a parser
    cli        \* what the command line linter finds on disk, and its flags

vars == <<name, value, op, result, node, content, cli>>

\* The variables the case utilities do not touch.
NoFile == [text |-> <<>>, filename |-> ""]

NoCli ==
    [directory |-> <<>>, verbose |-> FALSE, help |-> FALSE,
     globFails |-> FALSE, pc |-> "none", allFiles |-> <<>>, next |-> 0,
     checked |-> <<>>, allIssues |-> <<>>, exitCode |-> -1]

\* Second arguments tried with validateMapping(k, _), after the tests: the
\* expected value ('user_id' for userId), the key lowercased ('userid'), the
\* expected value cut short ('session' for sessionId) and extended
\* ('user_identifier'), the key itself, its camelCase form and the empty
\* string.
Values(k) ==
    LET expected == camelToSnake(k) IN
    {expected,
     toLowerCase(k),
     SubSeq(expected, 1, Len(expected) - 1),
     expected \o <<"a">>,
     k,
     snakeToCamel(k),
     <<>>}

Init ==
    /\ name \in StringsUpTo(MaxLen)
    /\ value = <<>>
    /\ op = "none"
    /\ result = <<>>
    /\ node = <<>>
    /\ content = NoFile
    /\ cli = NoCli

CallIsCamelCase ==
    /\ op = "none"
    /\ op' = "isCamelCase"
    /\ result' = isCamelCase(name)
    /\ UNCHANGED <<name, value, node, content, cli>>

CallIsSnakeCase ==
    /\ op = "none"
    /\ op' = "isSnakeCase"
    /\ result' = isSnakeCase(name)
    /\ UNCHANGED <<name, value, node, content, cli>>

CallCamelToSnake ==
    /\ op = "none"
    /\ op' = "camelToSnake"
    /\ result' = camelToSnake(name)
    /\ UNCHANGED <<name, value, node, content, cli>>

CallSnakeToCamel ==
    /\ op = "none"
    /\ op' = "snakeToCamel"
    /\ result' = snakeToCamel(name)
    /\ UNCHANGED <<name, value, node, content, cli>>

CallValidateMapping ==
    /\ op = "none"
    /\ \E v \in Values(name) :
          /\ value' = v
          /\ result' = validateMapping(name, v)
    /\ op' = "validateMapping"
    /\ UNCHANGED <<name, node, content, cli>>

\* Both classifiers applied to the same string.
Classify ==
    /\ op = "none"
    /\ op' = "classify"
    /\ result' = [camel |-> isCamelCase(name), snake |-> isSnakeCase(name)]
    /\ UNCHANGED <<name, value, node, content, cli>>

\* const snake = camelToSnake(camelCase); const backToCamel = snakeToCamel(snake)
RoundTripCamel ==
    /\ op = "none"
    /\ op' = "camelRoundTrip"
    /\ result' = snakeToCamel(camelToSnake(name))
    /\ UNCHANGED <<name, value, node, content, cli>>

\* const camel = snakeToCamel(snakeCase); const backToSnake = camelToSnake(camel)
RoundTripSnake ==
    /\ op = "none"
    /\ op' = "snakeRoundTrip"
    /\ result' = camelToSnake(snakeToCamel(name))
    /\ UNCHANGED <<name, value, node, content, cli>>

Next ==
    \/ CallIsCamelCase
    \/ CallIsSnakeCase
    \/ CallCamelToSnake
    \/ CallSnakeToCamel
    \/ CallValidateMapping
    \/ Classify
    \/ RoundTripCamel
    \/ RoundTripSnake

Spec == Init /\ [][Next]_vars

\* ------------------------------------------------------------------------
\* The tinybird-case plugin: camel-case-json-keys and camel-snake-mapping
\* ------------------------------------------------------------------------

\* An entry of node.properties.  keyType "StringLiteral" is a key of type
\* 'Literal' whose value is a string, "Identifier" a key of type
\* 'Identifier', "OtherKey" any other key (a numeric literal, a computed
\* expression); valueType "StringLiteral" is a value of type 'Literal' whose
\* value is a string, "OtherValue" any other value.
SpreadElement ==
    [type |-> "SpreadElement", keyType |-> "OtherKey", key |-> <<>>,
     valueType |-> "OtherValue", value |-> <<>>]

Property(kt, k, vt, v) ==
    [type |-> "Property", keyType |-> kt, key |-> k,
     valueType |-> vt, value |-> v]

\* const skipKeys = ['__typename', '__proto__', 'constructor']
skipKeys ==
    {<<"_", "_", "t", "y", "p", "e", "n", "a", "m", "e">>,
     <<"_", "_", "p", "r", "o", "t", "o", "_", "_">>,
     <<"c", "o", "n", "s", "t", "r", "u", "c", "t", "o", "r">>}

\* keyName after "Get the key name": null unless the key is an identifier or
\* a string literal.
KeyName(property) ==
    IF property.keyType \in {"Identifier", "StringLiteral"}
    THEN [isNull |-> FALSE, str |-> property.key]
    ELSE [isNull |-> TRUE, str |-> <<>>]

\* valueName after "Get value": null unless the value is a string literal.
ValueName(property) ==
    IF property.valueType = "StringLiteral"
    THEN [isNull |-> FALSE, str |-> property.value]
    ELSE [isNull |-> TRUE, str |-> <<>>]

\* !x for x a string or null: null and the empty string are falsy.
Falsy(x) == x.isNull \/ Len(x.str) = 0

\* keyName.replace(/_([a-z])/g, (_, char) => char.toUpperCase()), from
\* position i
RECURSIVE ReplaceUnderscoreLetter(_, _)
ReplaceUnderscoreLetter(s, i) ==
    IF i > Len(s) THEN <<>>
    ELSE IF /\ i + 1 <= Len(s)
            /\ s[i] = "_"
            /\ s[i + 1] \in LowerChars
         THEN <<UpperOf(s[i + 1])>> \o ReplaceUnderscoreLetter(s, i + 2)
         ELSE <<s[i]>> \o ReplaceUnderscoreLetter(s, i + 1)

\* The suggested camelCase version of a key that is not camelCase.
ExpectedKey(keyName) ==
    IF isSnakeCase(keyName) THEN ReplaceUnderscoreLetter(keyName, 1)
    ELSE IF \E i \in 1..Len(keyName) : keyName[i] = "_"
         THEN ReplaceUnderscoreLetter(keyName, 1)
    ELSE IF Len(keyName) > 0 /\ keyName[1] \in UpperChars
         THEN <<LowerOf(keyName[1])>> \o SubSeq(keyName, 2, Len(keyName))
    ELSE keyName

\* What camel-case-json-keys reports for the i-th property of the node.
JsonKeyReports(property, i) ==
    IF property.type # "Property" THEN <<>>
    ELSE IF Falsy(KeyName(property)) THEN <<>>
    ELSE IF KeyName(property).str \in skipKeys THEN <<>>
    ELSE IF ~isCamelCase(KeyName(property).str)
         THEN LET keyName == KeyName(property).str
                  expected == ExpectedKey(keyName)
              IN <<[property |-> i,
                    at |-> "key",
                    messageId |-> IF expected # keyName
                                  THEN "notCamelCase" ELSE "invalidKey",
                    data |-> [key |-> keyName, expected |-> expected]]>>
    ELSE <<>>

\* camelCaseJsonKeysRule: ObjectExpression(node)
camelCaseJsonKeys(n) ==
    Concat([i \in 1..Len(n) |-> JsonKeyReports(n[i], i)], Len(n))

\* allStringValues with some() in place of every().
allStringValues_some(n) ==
    \E i \in 1..Len(n) :
        n[i].type = "Property" /\ n[i].valueType = "StringLiteral"

\* node.properties.every(prop => prop.type === 'Property' &&
\*   prop.value.type === 'Literal' && typeof prop.value.value === 'string')
allStringValues(n) ==
    \A i \in 1..Len(n) :
        n[i].type = "Property" /\ n[i].valueType = "StringLiteral"

\* What camel-snake-mapping reports for the i-th property of a mapping
\* object.
MappingReports(property, i) ==
    IF property.type # "Property" THEN <<>>
    ELSE IF Falsy(KeyName(property)) \/ Falsy(ValueName(property)) THEN <<>>
    ELSE LET keyName == KeyName(property).str
             valueName == ValueName(property).str
             expectedSnake == camelToSnake(keyName)
         IN IF ~isCamelCase(keyName)
            THEN <<[property |-> i, at |-> "key",
                    messageId |-> "keyNotCamelCase",
                    data |-> [key |-> keyName]]>>
            ELSE IF ~isSnakeCase(valueName)
            THEN <<[property |-> i, at |-> "value",
                    messageId |-> "valueNotSnakeCase",
                    data |-> [value |-> valueName]]>>
            ELSE IF valueName # expectedSnake
            THEN <<[property |-> i, at |-> "property",
                    messageId |-> "incorrectMapping",
                    data |-> [key |-> keyName,
                              expected |-> expectedSnake,
                              actual |-> valueName]]>>
            ELSE <<>>

\* camelSnakeMappingRule: ObjectExpression(node)
camelSnakeMapping(n) ==
    IF ~allStringValues(n) \/ Len(n) = 0 THEN <<>>
    ELSE Concat([i \in 1..Len(n) |-> MappingReports(n[i], i)], Len(n))

\* A key name an Identifier node can hold.
IsIdentifierName(k) ==
    /\ Len(k) > 0
    /\ k[1] \notin DigitChars
    /\ \A i \in 1..Len(k) : k[i] # "-"

\* The keys object literals are built from.
KeyStrings == StringsUpTo(MaxKeyLen) \cup skipKeys

\* The properties with key k: an identifier or a string-literal key, a
\* string-literal value taken from Values(k) or a value of another kind.
PropertiesWithKey(k) ==
    {Property(kt, k, "StringLiteral", v) :
        kt \in (IF IsIdentifierName(k) THEN {"Identifier"} ELSE {})
                  \cup {"StringLiteral"},
        v \in Values(k)}
    \cup
    {Property(kt, k, "OtherValue", <<>>) :
        kt \in (IF IsIdentifierName(k) THEN {"Identifier"} ELSE {})
                  \cup {"StringLiteral"}}

Properties ==
    UNION {PropertiesWithKey(k) : k \in KeyStrings}
        \cup {Property("OtherKey", <<>>, "StringLiteral", <<"a">>),
              Property("OtherKey", <<>>, "OtherValue", <<>>),
              SpreadElement}

\* The entries an object literal may hold next to the one under scrutiny:
\* userId: "user_id", createdAt: new Date(), ...rest.
Neighbours ==
    {Property("Identifier", <<"a", "B">>, "StringLiteral", <<"a", "_", "b">>),
     Property("Identifier", <<"a", "B">>, "OtherValue", <<>>),
     SpreadElement}

\* The object literals handed to the rules that hold the property p: p alone,
\* and p before or after one neighbour.
NodesWith(p) ==
    {<<p>>}
        \cup {<<p, q>> : q \in Neighbours}
        \cup {<<q, p>> : q \in Neighbours}

InitRules ==
    /\ \/ node = <<>>
       \/ \E p \in Properties : node \in NodesWith(p)
    /\ name = <<>>
    /\ value = <<>>
    /\ op = "none"
    /\ result = <<>>
    /\ content = NoFile
    /\ cli = NoCli

VisitCamelCaseJsonKeys ==
    /\ op = "none"
    /\ op' = "camelCaseJsonKeys"
    /\ result' = camelCaseJsonKeys(node)
    /\ UNCHANGED <<name, value, node, content, cli>>

VisitCamelSnakeMapping ==
    /\ op = "none"
    /\ op' = "camelSnakeMapping"
    /\ result' = camelSnakeMapping(node)
    /\ UNCHANGED <<name, value, node, content, cli>>

NextRules ==
    \/ VisitCamelCaseJsonKeys
    \/ VisitCamelSnakeMapping

SpecRules == InitRules /\ [][NextRules]_vars

\* ------------------------------------------------------------------------
\* String helpers of parsers.ts
\* ------------------------------------------------------------------------

\* \s
WhitespaceChars == {" ", "\t"}

\* \w
WordChars == LowerChars \cup UpperChars \cup DigitChars \cup {"_"}

\* The character U+0060 (grave accent), which a string of this notation cannot
\* hold: it is written by its name.
Backtick == "backtick"

\* [a-zA-Z_]
IdentStartChars == LowerChars \cup UpperChars \cup {"_"}

\* String.prototype.toUpperCase
toUpperCase(s) == [i \in 1..Len(s) |-> UpperOf(s[i])]

\* s with its leading whitespace removed.
RECURSIVE TrimStart(_)
TrimStart(s) ==
    IF Len(s) > 0 /\ s[1] \in WhitespaceChars THEN TrimStart(Tail(s)) ELSE s

\* s with its trailing whitespace removed.
RECURSIVE TrimEnd(_)
TrimEnd(s) ==
    IF Len(s) > 0 /\ s[Len(s)] \in WhitespaceChars
    THEN TrimEnd(SubSeq(s, 1, Len(s) - 1))
    ELSE s

\* String.prototype.trim
trim(s) == TrimEnd(TrimStart(s))

\* String.prototype.startsWith
startsWith(s, prefix) ==
    Len(s) >= Len(prefix) /\ SubSeq(s, 1, Len(prefix)) = prefix

\* String.prototype.includes
includes(s, sub) ==
    \E i \in 1..(Len(s) - Len(sub) + 1) : SubSeq(s, i, i + Len(sub) - 1) = sub

\* The position of the k-th '\n' of text; 0 for k = 0 and Len(text) + 1 when
\* text has fewer than k of them.
NewlineAt(text, k) ==
    LET newlines == {i \in 1..Len(text) : text[i] = "\n"}
    IN IF k = 0 THEN 0
       ELSE IF k > Cardinality(newlines) THEN Len(text) + 1
       ELSE CHOOSE i \in newlines :
                Cardinality({j \in newlines : j < i}) = k - 1

\* content.split('\n'): the pieces of text between its '\n' characters, one
\* more than there are '\n' characters.
split(text) ==
    LET count == Cardinality({i \in 1..Len(text) : text[i] = "\n"})
    IN [k \in 1..(count + 1) |->
           SubSeq(text, NewlineAt(text, k - 1) + 1, NewlineAt(text, k) - 1)]

\* The text whose lines are ls: the lines joined by '\n'.
RECURSIVE JoinLines(_)
JoinLines(ls) ==
    IF Len(ls) = 0 THEN <<>>
    ELSE IF Len(ls) = 1 THEN ls[1]
    ELSE ls[1] \o <<"\n">> \o JoinLines(Tail(ls))

\* The first position at or after i of s that holds no character of class,
\* Len(s) + 1 if there is none: the end of a greedy class* at i.
RECURSIVE EndOfRun(_, _, _)
EndOfRun(s, i, class) ==
    IF i <= Len(s) /\ s[i] \in class THEN EndOfRun(s, i + 1, class) ELSE i

\* 'SCHEMA'
SCHEMA ==
    <<"S", "C", "H", "E", "M", "A">>

\* 'ENGINE'
ENGINE ==
    <<"E", "N", "G", "I", "N", "E">>

\* 'SELECT'
SELECT ==
    <<"S", "E", "L", "E", "C", "T">>

\* 'WITH'
WITHPrefix ==
    <<"W", "I", "T", "H">>

\* `Column name "`
ColumnNamePrefix ==
    <<"C", "o", "l", "u", "m", "n", " ", "n", "a", "m", "e", " ", "\"">>

\* `" should be renamed`
ShouldBeSnakeCase_noCaseName ==
    <<"\"", " ", "s", "h", "o", "u", "l", "d", " ", "b", "e", " ", "r",
      "e", "n", "a", "m", "e", "d">>

\* `" should be in snake_case`
ShouldBeSnakeCase ==
    <<"\"", " ", "s", "h", "o", "u", "l", "d", " ", "b", "e", " ", "i",
      "n", " ", "s", "n", "a", "k", "e", "_", "c", "a", "s", "e">>

\* `Column "`
ColumnPrefix ==
    <<"C", "o", "l", "u", "m", "n", " ", "\"">>

\* `Alias "`
AliasPrefix ==
    <<"A", "l", "i", "a", "s", " ", "\"">>

\* `" should be in camelCase for API output`
ShouldBeCamelCase ==
    <<"\"", " ", "s", "h", "o", "u", "l", "d", " ", "b", "e", " ", "i",
      "n", " ", "c", "a", "m", "e", "l", "C", "a", "s", "e", " ", "f", "o",
      "r", " ", "A", "P", "I", " ", "o", "u", "t", "p", "u", "t">>

\* `" is snake_case but should be camelCase for API output`
IsSnakeButCamel ==
    <<"\"", " ", "i", "s", " ", "s", "n", "a", "k", "e", "_", "c", "a",
      "s", "e", " ", "b", "u", "t", " ", "s", "h", "o", "u", "l", "d", " ",
      "b", "e", " ", "c", "a", "m", "e", "l", "C", "a", "s", "e", " ", "f",
      "o", "r", " ", "A", "P", "I", " ", "o", "u", "t", "p", "u", "t">>

\* ------------------------------------------------------------------------
\* parseDatasource
\* ------------------------------------------------------------------------

\* trimmed.match(/^`?([a-zA-Z_][a-zA-Z0-9_]*)`?\s+\w+/): the captured column
\* name, <<>> if there is no match (a match captures at least one
\* character).
columnMatch(trimmed) ==
    LET start == IF Len(trimmed) > 0 /\ trimmed[1] = Backtick THEN 2 ELSE 1
        stop == EndOfRun(trimmed, start, WordChars)
        afterTick == IF stop <= Len(trimmed) /\ trimmed[stop] = Backtick
                     THEN stop + 1 ELSE stop
        afterSpace == EndOfRun(trimmed, afterTick, WhitespaceChars)
    IN IF /\ start <= Len(trimmed)
          /\ trimmed[start] \in IdentStartChars
          /\ afterSpace > afterTick
          /\ afterSpace <= Len(trimmed)
          /\ trimmed[afterSpace] \in WordChars
       THEN SubSeq(trimmed, start, stop - 1)
       ELSE <<>>

\* The issue pushed, with the line counted from 0.
DatasourceIssue_zeroBased(filename, lineNumber, columnName) ==
    [file |-> filename,
     line |-> lineNumber - 1,
     column |-> columnName,
     issue |-> ColumnNamePrefix \o columnName \o ShouldBeSnakeCase,
     severity |-> "error"]

\* The issue pushed for a column name that is not snake_case.
DatasourceIssue(filename, lineNumber, columnName) ==
    [file |-> filename,
     line |-> lineNumber,
     column |-> columnName,
     issue |-> ColumnNamePrefix \o columnName \o ShouldBeSnakeCase,
     severity |-> "error"]

\* The loop of parseDatasource from line lineNumber on, entered with the
\* flag inSchemaSection: the issues pushed from there to the end.
RECURSIVE DatasourceLoop(_, _, _, _)
DatasourceLoop(lines, lineNumber, inSchemaSection, filename) ==
    IF lineNumber > Len(lines) THEN <<>>
    ELSE
      LET trimmed == trim(lines[lineNumber])
          upper == toUpperCase(trimmed)
      IN
      IF startsWith(upper, SCHEMA)
      THEN DatasourceLoop(lines, lineNumber + 1, TRUE, filename)
      ELSE IF inSchemaSection /\ (startsWith(upper, ENGINE) \/ trimmed = <<>>)
      THEN DatasourceLoop(lines, lineNumber + 1,
                          IF startsWith(upper, ENGINE)
                          THEN FALSE ELSE inSchemaSection,
                          filename)
      ELSE
        (IF /\ inSchemaSection
            /\ Len(trimmed) > 0
            /\ ~startsWith(trimmed, <<"#">>)
            /\ columnMatch(trimmed) # <<>>
            /\ ~isSnakeCase(columnMatch(trimmed))
         THEN <<DatasourceIssue(filename, lineNumber, columnMatch(trimmed))>>
         ELSE <<>>)
        \o DatasourceLoop(lines, lineNumber + 1, inSchemaSection, filename)

\* parseDatasource with inSchemaSection initialised to true.
parseDatasource_startsInSchema(text, filename) ==
    DatasourceLoop(split(text), 1, TRUE, filename)

parseDatasource(text, filename) ==
    DatasourceLoop(split(text), 1, FALSE, filename)

\* ------------------------------------------------------------------------
\* parsePipe, parseIncl
\* ------------------------------------------------------------------------

\* No match of a regular expression.
NoMatch == [found |-> FALSE, column |-> <<>>, alias |-> <<>>, end |-> 0]

\* A match of /\b([a-zA-Z_][a-zA-Z0-9_]*)\s+AS\s+([a-zA-Z_][a-zA-Z0-9_]*)/i
\* that starts at position p of line, if there is one. Every quantifier is
\* greedy and none can give a character back to what follows it.
asMatchAt(line, p) ==
    LET colEnd == EndOfRun(line, p, WordChars)
        asAt == EndOfRun(line, colEnd, WhitespaceChars)
        spaceAt == asAt + 2
        aliasAt == EndOfRun(line, spaceAt, WhitespaceChars)
        aliasEnd == EndOfRun(line, aliasAt, WordChars)
    IN IF /\ p <= Len(line)
          /\ line[p] \in IdentStartChars
          /\ (p = 1 \/ line[p - 1] \notin WordChars)
          /\ asAt > colEnd
          /\ asAt + 1 <= Len(line)
          /\ line[asAt] \in {"a", "A"}
          /\ line[asAt + 1] \in {"s", "S"}
          /\ aliasAt > spaceAt
          /\ aliasAt <= Len(line)
          /\ line[aliasAt] \in IdentStartChars
       THEN [found |-> TRUE,
             column |-> SubSeq(line, p, colEnd - 1),
             alias |-> SubSeq(line, aliasAt, aliasEnd - 1),
             end |-> aliasEnd]
       ELSE NoMatch

\* line.matchAll(...) from position p on: the matches from left to right,
\* each search resuming where the match before it ended.
RECURSIVE asMatches(_, _)
asMatches(line, p) ==
    IF p > Len(line) THEN <<>>
    ELSE IF asMatchAt(line, p).found
    THEN <<asMatchAt(line, p)>> \o asMatches(line, asMatchAt(line, p).end)
    ELSE asMatches(line, p + 1)

\* A match of /AS\s+([a-z_]+[_][a-z_]+)/i that starts at position p of line,
\* if there is one: the run of letters and underscores after the whitespace
\* needs an underscore that is neither its first nor its last character, and
\* the group captures the whole run.
snakeCaseAliasMatchAt(line, p) ==
    LET spaceAt == p + 2
        aliasAt == EndOfRun(line, spaceAt, WhitespaceChars)
        aliasEnd == EndOfRun(line, aliasAt, IdentStartChars)
    IN IF /\ p + 1 <= Len(line)
          /\ line[p] \in {"a", "A"}
          /\ line[p + 1] \in {"s", "S"}
          /\ aliasAt > spaceAt
          /\ \E j \in (aliasAt + 1)..(aliasEnd - 2) : line[j] = "_"
       THEN [found |-> TRUE,
             column |-> <<>>,
             alias |-> SubSeq(line, aliasAt, aliasEnd - 1),
             end |-> aliasEnd]
       ELSE NoMatch

\* line.match(/AS\s+([a-z_]+[_][a-z_]+)/i): the leftmost match at or after
\* position p.
RECURSIVE snakeCaseAliasMatch(_, _)
snakeCaseAliasMatch(line, p) ==
    IF p > Len(line) THEN NoMatch
    ELSE IF snakeCaseAliasMatchAt(line, p).found
    THEN snakeCaseAliasMatchAt(line, p)
    ELSE snakeCaseAliasMatch(line, p + 1)

\* An issue of parsePipe.
PipeIssue(filename, lineNumber, identifier, prefix, suffix) ==
    [file |-> filename,
     line |-> lineNumber,
     column |-> identifier,
     issue |-> prefix \o identifier \o suffix,
     severity |-> "error"]

\* The body of the loop over asMatches for one match.
AsMatchIssues(filename, lineNumber, match) ==
    (IF ~isSnakeCase(match.column) /\ ~includes(match.column, <<"(">>)
     THEN <<PipeIssue(filename, lineNumber, match.column,
                      ColumnPrefix, ShouldBeSnakeCase)>>
     ELSE <<>>)
    \o
    (IF ~isCamelCase(match.alias)
     THEN <<PipeIssue(filename, lineNumber, match.alias,
                      AliasPrefix, ShouldBeCamelCase)>>
     ELSE <<>>)

\* The issues of the first n matches of a line.
RECURSIVE AllAsMatchIssues(_, _, _, _)
AllAsMatchIssues(filename, lineNumber, matches, n) ==
    IF n = 0 THEN <<>>
    ELSE AllAsMatchIssues(filename, lineNumber, matches, n - 1)
         \o AsMatchIssues(filename, lineNumber, matches[n])

\* The check for snake_case aliases after the loop over asMatches.
SnakeCaseAliasIssues(filename, lineNumber, line) ==
    LET match == snakeCaseAliasMatch(line, 1)
    IN IF match.found /\ isSnakeCase(match.alias)
       THEN <<PipeIssue(filename, lineNumber, match.alias,
                        AliasPrefix, IsSnakeButCamel)>>
       ELSE <<>>

\* inSqlBlock after the test of one line, were a blank line to end the block.
SqlBlockAfter_resetOnBlank(inSqlBlock, line) ==
    \/ inSqlBlock /\ trim(line) # <<>>
    \/ startsWith(toUpperCase(trim(line)), SELECT)
    \/ startsWith(toUpperCase(trim(line)), WITHPrefix)

\* The value of inSqlBlock after the test of one line.
SqlBlockAfter(inSqlBlock, line) ==
    \/ inSqlBlock
    \/ startsWith(toUpperCase(trim(line)), SELECT)
    \/ startsWith(toUpperCase(trim(line)), WITHPrefix)

\* The issues pushed for one line that is scanned.
PipeLineIssues(filename, lineNumber, line) ==
    AllAsMatchIssues(filename, lineNumber, asMatches(line, 1),
                     Len(asMatches(line, 1)))
    \o SnakeCaseAliasIssues(filename, lineNumber, line)

\* The loop of parsePipe from line lineNumber on, entered with the flag
\* inSqlBlock: the issues pushed from there to the end.
RECURSIVE PipeLoop(_, _, _, _)
PipeLoop(lines, lineNumber, inSqlBlock, filename) ==
    IF lineNumber > Len(lines) THEN <<>>
    ELSE
      (IF SqlBlockAfter(inSqlBlock, lines[lineNumber])
       THEN PipeLineIssues(filename, lineNumber, lines[lineNumber])
       ELSE <<>>)
      \o PipeLoop(lines, lineNumber + 1,
                  SqlBlockAfter(inSqlBlock, lines[lineNumber]), filename)

parsePipe(text, filename) == PipeLoop(split(text), 1, FALSE, filename)

parseIncl_asDatasource(text, filename) == parseDatasource(text, filename)

parseIncl(text, filename) == parsePipe(text, filename)

\* ------------------------------------------------------------------------
\* The parsers as a state machine: a file is read and handed to a parser
\* ------------------------------------------------------------------------

\* the line `SCHEMA >`
SchemaHeader ==
    <<"S", "C", "H", "E", "M", "A", " ", ">">>

\* the line `ENGINE MergeTree`
EngineLine ==
    <<"E", "N", "G", "I", "N", "E", " ", "M", "e", "r", "g", "e", "T", "r",
      "e", "e">>

\* the empty line
EmptyLine ==
    <<>>

\* the line `user_id String,`
UserIdSnakeLine ==
    <<"u", "s", "e", "r", "_", "i", "d", " ", "S", "t", "r", "i", "n", "g",
      ",">>

\* the line `userId String,`
UserIdCamelLine ==
    <<"u", "s", "e", "r", "I", "d", " ", "S", "t", "r", "i", "n", "g", ",">>

\* the line `session_id String`
SessionIdLine ==
    <<"s", "e", "s", "s", "i", "o", "n", "_", "i", "d", " ", "S", "t", "r",
      "i", "n", "g">>

\* the line `# userId String`
CommentLine ==
    <<"#", " ", "u", "s", "e", "r", "I", "d", " ", "S", "t", "r", "i", "n",
      "g">>

\* the line `    `UserId` String` (indented, the name in backticks)
BacktickLine ==
    <<" ", " ", " ", " ", Backtick, "U", "s", "e", "r", "I", "d", Backtick,
      " ", "S", "t", "r", "i", "n", "g">>

\* the line `schemaId String`
SchemaIdLine ==
    <<"s", "c", "h", "e", "m", "a", "I", "d", " ", "S", "t", "r", "i", "n",
      "g">>

\* the line `SELECT user_id AS userId, session_id AS session_id FROM events`
QueryLine ==
    <<"S", "E", "L", "E", "C", "T", " ", "u", "s", "e", "r", "_", "i", "d",
      " ", "A", "S", " ", "u", "s", "e", "r", "I", "d", ",", " ", "s", "e",
      "s", "s", "i", "o", "n", "_", "i", "d", " ", "A", "S", " ", "s", "e",
      "s", "s", "i", "o", "n", "_", "i", "d", " ", "F", "R", "O", "M", " ",
      "e", "v", "e", "n", "t", "s">>

\* the line `SELECT`
SelectLine ==
    <<"S", "E", "L", "E", "C", "T">>

\* the line `    user_id AS userId,`
GoodPairLine ==
    <<" ", " ", " ", " ", "u", "s", "e", "r", "_", "i", "d", " ", "A", "S",
      " ", "u", "s", "e", "r", "I", "d", ",">>

\* the line `    userId AS user_id`
BadPairLine ==
    <<" ", " ", " ", " ", "u", "s", "e", "r", "I", "d", " ", "A", "S", " ",
      "u", "s", "e", "r", "_", "i", "d">>

\* the line `    COUNT(*) AS count,`
CountLine ==
    <<" ", " ", " ", " ", "C", "O", "U", "N", "T", "(", "*", ")", " ", "A",
      "S", " ", "c", "o", "u", "n", "t", ",">>

\* the line `    MAX(created_at) AS LastSeen`
MaxLine ==
    <<" ", " ", " ", " ", "M", "A", "X", "(", "c", "r", "e", "a", "t", "e",
      "d", "_", "a", "t", ")", " ", "A", "S", " ", "L", "a", "s", "t", "S",
      "e", "e", "n">>

\* the line `FROM events`
FromLine ==
    <<"F", "R", "O", "M", " ", "e", "v", "e", "n", "t", "s">>

\* the line `WITH user_sessions AS (`
WithLine ==
    <<"W", "I", "T", "H", " ", "u", "s", "e", "r", "_", "s", "e", "s", "s",
      "i", "o", "n", "s", " ", "A", "S", " ", "(">>

\* the line `    userId as UserId`
LowerAsLine ==
    <<" ", " ", " ", " ", "u", "s", "e", "r", "I", "d", " ", "a", "s", " ",
      "U", "s", "e", "r", "I", "d">>

DatasourceLines ==
    {SchemaHeader,
     EngineLine,
     EmptyLine,
     UserIdSnakeLine,
     UserIdCamelLine,
     SessionIdLine,
     CommentLine,
     BacktickLine,
     SchemaIdLine}

PipeLines ==
    {QueryLine,
     SelectLine,
     GoodPairLine,
     BadPairLine,
     CountLine,
     MaxLine,
     FromLine,
     WithLine,
     LowerAsLine,
     EmptyLine}

FileNames == {"events.datasource", "sessions.pipe"}

\* A pipe file with a line before its SELECT and a blank line inside the
\* query.
BlockScenario == <<BadPairLine, SelectLine, EmptyLine, BadPairLine>>

\* The file with the lines ls and the name filename, as its text.
File(ls, filename) == [text |-> JoinLines(ls), filename |-> filename]

InitParsers ==
    /\ \E filename \in FileNames :
          \/ \E k \in 1..MaxLines : \E ls \in [1..k -> DatasourceLines] :
                content = File(ls, filename)
          \/ \E k \in 1..MaxPipeLines : \E ls \in [1..k -> PipeLines] :
                content = File(ls, filename)
          \/ content = File(BlockScenario, filename)
    /\ name = <<>>
    /\ value = <<>>
    /\ op = "none"
    /\ result = <<>>
    /\ node = <<>>
    /\ cli = NoCli

CallParseDatasource ==
    /\ op = "none"
    /\ op' = "parseDatasource"
    /\ result' = parseDatasource(content.text, content.filename)
    /\ UNCHANGED <<name, value, node, content, cli>>

CallParsePipe ==
    /\ op = "none"
    /\ op' = "parsePipe"
    /\ result' = parsePipe(content.text, content.filename)
    /\ UNCHANGED <<name, value, node, content, cli>>

CallParseIncl ==
    /\ op = "none"
    /\ op' = "parseIncl"
    /\ result' = parseIncl(content.text, content.filename)
    /\ UNCHANGED <<name, value, node, content, cli>>

NextParsers ==
    \/ CallParseDatasource
    \/ CallParsePipe
    \/ CallParseIncl

SpecParsers == InitParsers /\ [][NextParsers]_vars

\* ------------------------------------------------------------------------
\* The command line: main and lintTinybirdFiles
\* ------------------------------------------------------------------------

\* '.datasource'
DatasourceExt ==
    <<".", "d", "a", "t", "a", "s", "o", "u", "r", "c", "e">>

\* '.pipe'
PipeExt ==
    <<".", "p", "i", "p", "e">>

\* '.incl'
InclExt ==
    <<".", "i", "n", "c", "l">>

\* the path `events.datasource`
EventsPath ==
    <<"e", "v", "e", "n", "t", "s", ".", "d", "a", "t", "a", "s", "o", "u",
      "r", "c", "e">>

\* the path `users.datasource`
UsersPath ==
    <<"u", "s", "e", "r", "s", ".", "d", "a", "t", "a", "s", "o", "u", "r",
      "c", "e">>

\* the path `query.datasource`
QueryPath ==
    <<"q", "u", "e", "r", "y", ".", "d", "a", "t", "a", "s", "o", "u", "r",
      "c", "e">>

\* the path `top.pipe`
TopPath ==
    <<"t", "o", "p", ".", "p", "i", "p", "e">>

\* the path `sessions.pipe`
SessionsPath ==
    <<"s", "e", "s", "s", "i", "o", "n", "s", ".", "p", "i", "p", "e">>

\* the path `locked.pipe`
LockedPath ==
    <<"l", "o", "c", "k", "e", "d", ".", "p", "i", "p", "e">>

\* the path `shared.incl`
SharedPath ==
    <<"s", "h", "a", "r", "e", "d", ".", "i", "n", "c", "l">>

\* the path `notes.txt`
NotesPath ==
    <<"n", "o", "t", "e", "s", ".", "t", "x", "t">>

\* String.prototype.endsWith
endsWith(s, suffix) ==
    /\ Len(s) >= Len(suffix)
    /\ SubSeq(s, Len(s) - Len(suffix) + 1, Len(s)) = suffix

\* A schema with a snake_case column.
CleanSchema == JoinLines(<<SchemaHeader, UserIdSnakeLine>>)

\* A schema with a camelCase column.
BadSchema == JoinLines(<<SchemaHeader, UserIdCamelLine>>)

\* A query with a snake_case column and a camelCase alias.
GoodQuery == JoinLines(<<SelectLine, GoodPairLine>>)

\* A query with a snake_case alias.
BadQuery == QueryLine

\* The files a linted directory can hold; readFile fails on a file that is
\* not readable.
DirectoryFiles ==
    {[path |-> EventsPath, text |-> CleanSchema, readable |-> TRUE],
     [path |-> UsersPath, text |-> BadSchema, readable |-> TRUE],
     [path |-> QueryPath, text |-> BadQuery, readable |-> TRUE],
     [path |-> TopPath, text |-> GoodQuery, readable |-> TRUE],
     [path |-> SessionsPath, text |-> BadQuery, readable |-> TRUE],
     [path |-> LockedPath, text |-> BadQuery, readable |-> FALSE],
     [path |-> SharedPath, text |-> BadQuery, readable |-> TRUE],
     [path |-> NotesPath, text |-> BadSchema, readable |-> TRUE]}

\* The directories of up to n distinct files.
Directories(n) ==
    {d \in UNION {[1..k -> DirectoryFiles] : k \in 0..n} :
        \A i, j \in 1..Len(d) : d[i] = d[j] => i = j}

\* glob('**/*' + ext): the files of the directory with the extension.
glob(directory, ext) ==
    SelectSeq(directory, LAMBDA f : endsWith(f.path, ext))

\* The dispatch of a file to its parser by the extension of its path.
ParseFile(file) ==
    IF endsWith(file.path, DatasourceExt)
    THEN parseDatasource(file.text, file.path)
    ELSE IF endsWith(file.path, PipeExt)
    THEN parsePipe(file.text, file.path)
    ELSE IF endsWith(file.path, InclExt)
    THEN parseIncl(file.text, file.path)
    ELSE <<>>

\* The status returned after the summary, with the count of issues returned
\* as the status.
SummaryStatus_issueCount(allIssues) == Len(allIssues)

\* The status lintTinybirdFiles returns after the summary.
SummaryStatus(allIssues) == IF Len(allIssues) = 0 THEN 0 ELSE 1

InitCli ==
    /\ cli \in {[NoCli EXCEPT !.directory = d, !.verbose = v, !.help = h,
                              !.globFails = g, !.pc = "main"] :
                   d \in Directories(MaxFiles), v \in BOOLEAN,
                   h \in BOOLEAN, g \in BOOLEAN}
    /\ name = <<>>
    /\ value = <<>>
    /\ op = "none"
    /\ result = <<>>
    /\ node = <<>>
    /\ content = NoFile

\* main up to its call of lintTinybirdFiles: --help prints the usage and
\* exits with status 0.
Main ==
    /\ cli.pc = "main"
    /\ cli' = IF cli.help
              THEN [cli EXCEPT !.pc = "exited", !.exitCode = 0]
              ELSE [cli EXCEPT !.pc = "glob"]
    /\ UNCHANGED <<name, value, op, result, node, content>>

\* The three globs and the test for no files; a glob that fails throws, and
\* main catches the error and exits with status 1.
Glob ==
    /\ cli.pc = "glob"
    /\ LET allFiles == glob(cli.directory, DatasourceExt)
                       \o glob(cli.directory, PipeExt)
                       \o glob(cli.directory, InclExt)
       IN cli' = IF cli.globFails
                 THEN [cli EXCEPT !.pc = "exited", !.exitCode = 1]
                 ELSE IF Len(allFiles) = 0
                 THEN [cli EXCEPT !.pc = "exited", !.exitCode = 0,
                                  !.allFiles = allFiles]
                 ELSE [cli EXCEPT !.pc = "loop", !.allFiles = allFiles,
                                  !.next = 1]
    /\ UNCHANGED <<name, value, op, result, node, content>>

\* One turn of the loop over allFiles: the file is read and parsed and its
\* issues are pushed; a read that fails throws, and main catches the error
\* and exits with status 1.
ProcessFile ==
    /\ cli.pc = "loop"
    /\ cli.next <= Len(cli.allFiles)
    /\ LET file == cli.allFiles[cli.next]
       IN cli' = IF ~file.readable
                 THEN [cli EXCEPT !.pc = "exited", !.exitCode = 1]
                 ELSE [cli EXCEPT !.next = cli.next + 1,
                                  !.checked = Append(cli.checked, file.path),
                                  !.allIssues = cli.allIssues \o ParseFile(file)]
    /\ UNCHANGED <<name, value, op, result, node, content>>

\* The summary after the loop; main exits with the status returned.
Summary ==
    /\ cli.pc = "loop"
    /\ cli.next > Len(cli.allFiles)
    /\ cli' = [cli EXCEPT !.pc = "exited",
                          !.exitCode = SummaryStatus(cli.allIssues)]
    /\ UNCHANGED <<name, value, op, result, node, content>>

NextCli ==
    \/ Main
    \/ Glob
    \/ ProcessFile
    \/ Summary

SpecCli == InitCli /\ [][NextCli]_vars

\* ------------------------------------------------------------------------
\* Helpers of the properties
\* ------------------------------------------------------------------------

AlnumChars == LowerChars \cup UpperChars \cup DigitChars

\* s consists of ASCII letters and digits only.
IsAlnum(s) == \A i \in 1..Len(s) : s[i] \in AlnumChars

\* The characters of s.
CharsOf(s) == {s[i] : i \in 1..Len(s)}

\* ------------------------------------------------------------------------
\* C1
\* ------------------------------------------------------------------------

\* C1: isCamelCase(s) is true iff s is non-empty, its first character is a
\* lowercase ASCII letter and every character is an ASCII letter or digit;
\* it is false for every other string.
C1_IsCamelCaseContract ==
    op = "isCamelCase" =>
        (result <=> /\ Len(name) > 0
                    /\ name[1] \in LowerChars
                    /\ IsAlnum(name))

\* An accepted string with an uppercase letter and a digit after position 0.
C1_Witness ==
    /\ op = "isCamelCase"
    /\ result = TRUE
    /\ \E i \in 2..Len(name) : name[i] \in UpperChars
    /\ \E i \in 2..Len(name) : name[i] \in DigitChars

\* ------------------------------------------------------------------------
\* C2
\* ------------------------------------------------------------------------

\* C2: isSnakeCase(s) is true iff s is non-empty, starts with a lowercase
\* ASCII letter, consists only of lowercase ASCII letters, digits and
\* underscores, has no two consecutive underscores and does not end with an
\* underscore.
C2_IsSnakeCaseContract ==
    op = "isSnakeCase" =>
        (result <=>
            /\ Len(name) > 0
            /\ name[1] \in LowerChars
            /\ CharsOf(name) \subseteq LowerChars \cup DigitChars \cup {"_"}
            /\ ~\E i \in 1..(Len(name) - 1) : name[i] = "_" /\ name[i + 1] = "_"
            /\ name[Len(name)] # "_")

\* An accepted string with two separate underscores.
C2_Witness ==
    /\ op = "isSnakeCase"
    /\ result = TRUE
    /\ Cardinality({i \in 1..Len(name) : name[i] = "_"}) = 2

\* ------------------------------------------------------------------------
\* C3
\* ------------------------------------------------------------------------

\* Rule (a): position i holds an uppercase character that immediately
\* follows a lowercase-or-digit character.
BoundaryA(s, i) ==
    /\ i >= 2
    /\ s[i - 1] \in LowerChars \cup DigitChars
    /\ s[i] \in UpperChars

\* Rule (b): position i holds an uppercase character that immediately
\* follows an uppercase character and is itself followed by a lowercase one.
BoundaryB(s, i) ==
    /\ i >= 2
    /\ i + 1 <= Len(s)
    /\ s[i - 1] \in UpperChars
    /\ s[i] \in UpperChars
    /\ s[i + 1] \in LowerChars

\* The lowercased s with an underscore in front of exactly the positions of
\* rules (a) and (b), both rules read off the original string.
InsertBoundaries(s) ==
    Concat([i \in 1..Len(s) |->
               IF BoundaryA(s, i) \/ BoundaryB(s, i)
               THEN <<"_", LowerOf(s[i])>>
               ELSE <<LowerOf(s[i])>>],
           Len(s))

\* C3: for every string s of ASCII letters and digits, camelToSnake(s) is
\* the lowercased s with an underscore inserted exactly (a) between a
\* lowercase-or-digit and a following uppercase character and (b) between
\* an uppercase character and a following uppercase character that is
\* followed by a lowercase letter; the two sequential passes equal the
\* simultaneous application of both rules.
C3_CamelToSnakeBoundaries ==
    (op = "camelToSnake" /\ IsAlnum(name)) =>
        result = InsertBoundaries(name)

\* A conversion in which both rules insert an underscore (as in
\* userIDToken).
C3_Witness ==
    /\ op = "camelToSnake"
    /\ IsAlnum(name)
    /\ \E i \in 1..Len(name) : BoundaryA(name, i)
    /\ \E i \in 1..Len(name) : BoundaryB(name, i)
    /\ result = InsertBoundaries(name)

\* ------------------------------------------------------------------------
\* C4
\* ------------------------------------------------------------------------

\* The lowercased s in which every underscore that is followed by a
\* character is removed and the character after it uppercased.
DropEveryFollowedUnderscore(s) ==
    LET l == toLowerCase(s) IN
    Concat([i \in 1..Len(l) |->
               IF l[i] = "_" /\ i < Len(l) THEN <<>>
               ELSE IF i > 1 /\ l[i - 1] = "_" THEN <<UpperOf(l[i])>>
               ELSE <<l[i]>>],
           Len(l))

\* The lowercased s in which every underscore that is immediately followed
\* by a lowercase ASCII letter or a digit is removed and that character
\* uppercased; every other character, every other underscore included,
\* stays as it is.
DropUnderscoreBeforeAlnum(s) ==
    LET l == toLowerCase(s) IN
    Concat([i \in 1..Len(l) |->
               IF /\ l[i] = "_"
                  /\ i < Len(l)
                  /\ l[i + 1] \in LowerChars \cup DigitChars
               THEN <<>>
               ELSE IF /\ i > 1
                       /\ l[i - 1] = "_"
                       /\ l[i] \in LowerChars \cup DigitChars
                    THEN <<UpperOf(l[i])>>
                    ELSE <<l[i]>>],
           Len(l))

\* C4 as stated: for every string s, snakeToCamel(s) is the lowercased s in
\* which every underscore followed by a character has been removed and that
\* following character uppercased.
C4_Original ==
    op = "snakeToCamel" => result = DropEveryFollowedUnderscore(name)

\* C4 amended: for every string s, snakeToCamel(s) is the lowercased s in
\* which every underscore immediately followed by a lowercase ASCII letter
\* or a digit has been removed and that character uppercased (a digit is
\* left unchanged); an underscore followed by anything else stays.
C4_SnakeToCamelRule ==
    op = "snakeToCamel" => result = DropUnderscoreBeforeAlnum(name)

\* A conversion of a string that is not snake_case: one underscore is
\* removed (before a digit), another one stays, an uppercase letter is
\* lowercased.
C4_Witness ==
    /\ op = "snakeToCamel"
    /\ ~isSnakeCase(name)
    /\ \E i \in 1..(Len(name) - 1) : name[i] = "_" /\ name[i + 1] \in DigitChars
    /\ \E i \in 1..Len(name) : name[i] \in UpperChars
    /\ "_" \in CharsOf(result)

\* ------------------------------------------------------------------------
\* C5
\* ------------------------------------------------------------------------

\* C5: validateMapping(k, v) is true iff camelToSnake(k) is exactly v,
\* whether or not k is camelCase or v is snake_case; each k has exactly one
\* accepted v.
C5_ValidateMappingContract ==
    op = "validateMapping" =>
        /\ result <=> (value = camelToSnake(name))
        /\ result =>
              \A v \in Values(name) : validateMapping(name, v) => v = value

\* An accepted pair whose key is not camelCase (as HTTPResponse ->
\* http_response).
C5_Witness ==
    /\ op = "validateMapping"
    /\ result = TRUE
    /\ Len(name) > 0
    /\ name[1] \in UpperChars
    /\ ~isCamelCase(name)
    /\ isSnakeCase(value)
    /\ "_" \in CharsOf(value)

\* ------------------------------------------------------------------------
\* C6
\* ------------------------------------------------------------------------

\* s has two adjacent uppercase letters.
HasAdjacentUpper(s) ==
    \E i \in 1..(Len(s) - 1) : s[i] \in UpperChars /\ s[i + 1] \in UpperChars

\* Position i of s lies inside a run of two or more uppercase letters.
InUpperRun(s, i) ==
    /\ s[i] \in UpperChars
    /\ \/ i > 1 /\ s[i - 1] \in UpperChars
       \/ i < Len(s) /\ s[i + 1] \in UpperChars

\* C6: for every s accepted by isCamelCase, r = snakeToCamel(camelToSnake(s))
\* equals s case-insensitively, differs from s only at positions inside runs
\* of consecutive uppercase letters, and is exactly s when s has no two
\* adjacent uppercase letters.
C6_CamelRoundTrip ==
    (op = "camelRoundTrip" /\ isCamelCase(name)) =>
        /\ toLowerCase(result) = toLowerCase(name)
        /\ \A i \in 1..Len(name) : result[i] # name[i] => InUpperRun(name, i)
        /\ ~HasAdjacentUpper(name) => result = name

\* A round trip of a camelCase string with an acronym run, a digit followed
\* by an uppercase letter, and a result that differs from the input.
C6_Witness ==
    /\ op = "camelRoundTrip"
    /\ isCamelCase(name)
    /\ HasAdjacentUpper(name)
    /\ \E i \in 1..(Len(name) - 1) :
          name[i] \in DigitChars /\ name[i + 1] \in UpperChars
    /\ result # name

\* ------------------------------------------------------------------------
\* C7
\* ------------------------------------------------------------------------

\* C7 as stated: for every s accepted by isSnakeCase,
\* camelToSnake(snakeToCamel(s)) is exactly s.
C7_Original ==
    (op = "snakeRoundTrip" /\ isSnakeCase(name)) => result = name

\* An underscore of s is immediately followed by a digit.
HasUnderscoreDigit(s) ==
    \E i \in 1..(Len(s) - 1) : s[i] = "_" /\ s[i + 1] \in DigitChars

\* A single letter of s stands between two underscores.
HasSingleLetterSegment(s) ==
    \E i \in 1..(Len(s) - 2) :
        s[i] = "_" /\ s[i + 1] \in LowerChars /\ s[i + 2] = "_"

\* C7 amended: for every s accepted by isSnakeCase in which no underscore is
\* immediately followed by a digit and no single letter stands between two
\* underscores, camelToSnake(snakeToCamel(s)) is exactly s.
C7_SnakeRoundTrip ==
    (/\ op = "snakeRoundTrip"
     /\ isSnakeCase(name)
     /\ ~HasUnderscoreDigit(name)
     /\ ~HasSingleLetterSegment(name)) => result = name

\* A round trip of such a snake_case string with an underscore and a digit.
C7_Witness ==
    /\ op = "snakeRoundTrip"
    /\ isSnakeCase(name)
    /\ ~HasUnderscoreDigit(name)
    /\ ~HasSingleLetterSegment(name)
    /\ "_" \in CharsOf(name)
    /\ CharsOf(name) \cap DigitChars # {}
    /\ result = name

\* ------------------------------------------------------------------------
\* C8
\* ------------------------------------------------------------------------

\* C8: isCamelCase(s) and isSnakeCase(s) are both true exactly when s is
\* non-empty, starts with a lowercase letter and consists only of lowercase
\* letters and digits; for a lowercase-first alphanumeric string isCamelCase
\* is true, and isSnakeCase is true iff the string has no uppercase letter.
C8_BothClassifiers ==
    op = "classify" =>
        /\ (result.camel /\ result.snake) <=>
              /\ Len(name) > 0
              /\ name[1] \in LowerChars
              /\ CharsOf(name) \subseteq LowerChars \cup DigitChars
        /\ (Len(name) > 0 /\ name[1] \in LowerChars /\ IsAlnum(name)) =>
              /\ result.camel
              /\ result.snake <=> CharsOf(name) \cap UpperChars = {}

\* A string with a digit accepted by both classifiers (as user123).
C8_Witness ==
    /\ op = "classify"
    /\ result.camel
    /\ result.snake
    /\ CharsOf(name) \cap DigitChars # {}
    /\ Len(name) > 2

\* ------------------------------------------------------------------------
\* C9
\* ------------------------------------------------------------------------

\* C9 as stated: there is no string s for which isCamelCase(s) and
\* isSnakeCase(s) are both true.
C9_Original ==
    op = "classify" => ~(result.camel /\ result.snake)

\* C9 amended: there is no string s containing an uppercase letter, an
\* underscore or any character other than lowercase ASCII letters and
\* digits for which isCamelCase(s) and isSnakeCase(s) are both true.
C9_DisjointOutsideLowerAlnum ==
    (op = "classify" /\ ~(CharsOf(name) \subseteq LowerChars \cup DigitChars))
        => ~(result.camel /\ result.snake)

\* A string with an underscore that is snake_case and not camelCase.
C9_Witness ==
    /\ op = "classify"
    /\ "_" \in CharsOf(name)
    /\ result.snake
    /\ ~result.camel

\* ------------------------------------------------------------------------
\* C10
\* ------------------------------------------------------------------------

\* Every character a result can hold.
AllChars == Chars \cup {"É"}

\* C10: every call returns normally with a value of its return type; on the
\* empty string the classifiers return false and the converters the empty
\* string; on strings with symbols or non-ASCII characters the classifiers
\* return false and the converters return a string.
C10_Total ==
    /\ op \in {"isCamelCase", "isSnakeCase"} =>
          /\ result \in BOOLEAN
          /\ (name = <<>> \/ CharsOf(name) \cap OtherChars # {}) =>
                result = FALSE
    /\ op \in {"camelToSnake", "snakeToCamel"} =>
          /\ result \in Seq(AllChars)
          /\ name = <<>> => result = <<>>
    /\ op = "validateMapping" => result \in BOOLEAN

\* A classifier call on a string that starts like an identifier and holds a
\* symbol or a non-ASCII character.
C10_Witness ==
    /\ op \in {"isCamelCase", "isSnakeCase"}
    /\ Len(name) > 1
    /\ name[1] \in LowerChars
    /\ CharsOf(name) \cap OtherChars # {}
    /\ result = FALSE

\* ------------------------------------------------------------------------
\* C11
\* ------------------------------------------------------------------------

\* The node is a mapping object: it is non-empty and every entry is a
\* property with a string-literal value.
IsMappingObject(n) == Len(n) > 0 /\ allStringValues(n)

\* Property i of the node is a key/value pair of strings.
IsPair(n, i) ==
    /\ n[i].type = "Property"
    /\ n[i].keyType \in {"Identifier", "StringLiteral"}
    /\ n[i].valueType = "StringLiteral"

\* The reports made for property i.
ReportsFor(i) == SelectSeq(result, LAMBDA r : r.property = i)

\* The message ids of the reports made for property i, in order.
MessagesFor(i) ==
    [j \in 1..Len(ReportsFor(i)) |-> ReportsFor(i)[j].messageId]

\* The one report the priority order asks for, if any.
PriorityMessages(k, v) ==
    IF ~isCamelCase(k) THEN <<"keyNotCamelCase">>
    ELSE IF ~isSnakeCase(v) THEN <<"valueNotSnakeCase">>
    ELSE IF v # camelToSnake(k) THEN <<"incorrectMapping">>
    ELSE <<>>

\* C11: in the camel-snake-mapping rule each key/value pair of a mapping
\* object gets at most one report, in priority order: 'keyNotCamelCase' if
\* the key fails isCamelCase; otherwise 'valueNotSnakeCase' if the value
\* fails isSnakeCase; otherwise 'incorrectMapping' iff the value differs
\* from camelToSnake(key), with expected = camelToSnake(key).
C11_Original ==
    (op = "camelSnakeMapping" /\ IsMappingObject(node)) =>
        \A i \in 1..Len(node) :
            IsPair(node, i) =>
                /\ MessagesFor(i) = PriorityMessages(node[i].key, node[i].value)
                /\ MessagesFor(i) = <<"incorrectMapping">> =>
                      ReportsFor(i)[1].data.expected = camelToSnake(node[i].key)

\* ------------------------------------------------------------------------
\* C19
\* ------------------------------------------------------------------------

\* C19: in the camel-snake-mapping rule every violating key/value pair of a
\* mapping object is reported: 'keyNotCamelCase' when the key fails
\* isCamelCase, 'valueNotSnakeCase' when the key is camelCase and the value
\* fails isSnakeCase (an empty key or value included).
C19_Original ==
    (op = "camelSnakeMapping" /\ IsMappingObject(node)) =>
        \A i \in 1..Len(node) :
            IsPair(node, i) =>
                /\ ~isCamelCase(node[i].key) =>
                      \E j \in 1..Len(result) :
                          /\ result[j].property = i
                          /\ result[j].messageId = "keyNotCamelCase"
                /\ (isCamelCase(node[i].key) /\ ~isSnakeCase(node[i].value)) =>
                      \E j \in 1..Len(result) :
                          /\ result[j].property = i
                          /\ result[j].messageId = "valueNotSnakeCase"

\* ------------------------------------------------------------------------
\* C20
\* ------------------------------------------------------------------------

\* Property i of the node has a key with a name.
HasKeyName(n, i) ==
    /\ n[i].type = "Property"
    /\ n[i].keyType \in {"Identifier", "StringLiteral"}

\* The key with only its first character lowercased.
LowerFirst(k) == <<LowerOf(k[1])>> \o SubSeq(k, 2, Len(k))

\* C20: in the camel-case-json-keys rule every key that fails isCamelCase,
\* the skipped keys aside, gets one report whose suggested name is: the key
\* with each `_x` replaced by uppercased `x` if the key is snake_case or
\* contains an underscore; else the key with its first character lowercased
\* if it starts with an uppercase letter; else the key unchanged.  For a
\* snake_case key the suggestion equals snakeToCamel(key).
C20_Original ==
    op = "camelCaseJsonKeys" =>
        \A i \in 1..Len(node) :
            (/\ HasKeyName(node, i)
             /\ node[i].key \notin skipKeys
             /\ ~isCamelCase(node[i].key)) =>
                LET k == node[i].key IN
                /\ Len(ReportsFor(i)) = 1
                /\ ReportsFor(i)[1].data.expected =
                      IF isSnakeCase(k) \/ "_" \in CharsOf(k)
                      THEN ReplaceUnderscoreLetter(k, 1)
                      ELSE IF k[1] \in UpperChars THEN LowerFirst(k)
                      ELSE k
                /\ isSnakeCase(k) =>
                      ReportsFor(i)[1].data.expected = snakeToCamel(k)

\* ------------------------------------------------------------------------
\* C12
\* ------------------------------------------------------------------------

\* The lines of the file that was parsed.
Lines == split(content.text)

\* The issues located at line i, in order.
IssuesAt(i) == SelectSeq(result, LAMBDA r : r.line = i)

\* the substring `snake_case`
SnakeCaseWord == <<"s", "n", "a", "k", "e", "_", "c", "a", "s", "e">>

\* Line i of lines lies in a schema section: a line before it opened the
\* section and no ENGINE line closed it since.
InSchemaSectionAt(lines, i) ==
    \E j \in 1..(i - 1) :
        /\ startsWith(toUpperCase(trim(lines[j])), SCHEMA)
        /\ \A k \in (j + 1)..(i - 1) :
              ~startsWith(toUpperCase(trim(lines[k])), ENGINE)

\* The trimmed line is a column line: not empty, not a comment, with a
\* leading identifier followed by whitespace and a type token.
IsColumnLine(trimmed) ==
    /\ trimmed # <<>>
    /\ ~startsWith(trimmed, <<"#">>)
    /\ columnMatch(trimmed) # <<>>

\* The issues at line i are one issue that names col and whose message
\* contains 'snake_case'.
OneSnakeCaseIssue(i, col) ==
    /\ Len(IssuesAt(i)) = 1
    /\ IssuesAt(i)[1].column = col
    /\ includes(IssuesAt(i)[1].issue, SnakeCaseWord)

\* C12: parseDatasource: within a detected schema section, every non-empty
\* line that does not start with '#' and whose leading identifier (bare or
\* backtick-quoted, followed by whitespace and a type token) fails
\* isSnakeCase produces exactly one issue naming that identifier with a
\* message containing 'snake_case'; lines whose identifier passes
\* isSnakeCase and comment lines produce no issue. In particular every
\* camelCase or PascalCase column name in the section is reported.
C12_Original ==
    op = "parseDatasource" =>
        LET lines == Lines IN
        \A i \in 1..Len(lines) :
            LET trimmed == trim(lines[i])
                col == columnMatch(trimmed)
            IN
            /\ (/\ IsColumnLine(trimmed)
                /\ ~isSnakeCase(col)
                /\ InSchemaSectionAt(lines, i)) => OneSnakeCaseIssue(i, col)
            /\ (\/ IsColumnLine(trimmed) /\ isSnakeCase(col)
                \/ startsWith(trimmed, <<"#">>)) => IssuesAt(i) = <<>>

\* ------------------------------------------------------------------------
\* C13
\* ------------------------------------------------------------------------

\* Line i of lines is scanned by parsePipe: it or a line before it starts
\* with SELECT or WITH.
IsScanned(lines, i) ==
    \E j \in 1..i :
        \/ startsWith(toUpperCase(trim(lines[j])), SELECT)
        \/ startsWith(toUpperCase(trim(lines[j])), WITHPrefix)

\* The `<identifier> AS <identifier>` fragments of a line, left to right.
Fragments(line) == asMatches(line, 1)

\* The number of issues the fragments ask for: one for each column that
\* fails isSnakeCase and one for each alias that fails isCamelCase.
FragmentIssueCount(fragments) ==
    Cardinality({k \in 1..Len(fragments) : ~isSnakeCase(fragments[k].column)})
    + Cardinality({k \in 1..Len(fragments) : ~isCamelCase(fragments[k].alias)})

\* C13: parsePipe: for each `<identifier> AS <identifier>` fragment on a
\* scanned line, one issue is produced for the column side iff the column
\* fails isSnakeCase and, separately, one issue for the alias side iff the
\* alias fails isCamelCase; a fragment with a snake_case column and a
\* camelCase alias produces no issue, and an expression before AS that is a
\* function call is never treated as a column.
C13_Original ==
    op = "parsePipe" =>
        LET lines == Lines IN
        \A i \in 1..Len(lines) :
            IsScanned(lines, i) =>
                /\ Len(IssuesAt(i)) = FragmentIssueCount(Fragments(lines[i]))
                /\ \A k \in 1..Len(IssuesAt(i)) :
                      ~includes(IssuesAt(i)[k].column, <<"(">>)

\* ------------------------------------------------------------------------
\* C14
\* ------------------------------------------------------------------------

\* the alias `session_id`
SessionId == <<"s", "e", "s", "s", "i", "o", "n", "_", "i", "d">>

\* the substring `camelCase`
CamelCaseWord == <<"c", "a", "m", "e", "l", "C", "a", "s", "e">>

\* C14: parsePipe on a query line whose only naming violation is a single
\* snake_case alias (`SELECT user_id AS userId, session_id AS session_id
\* FROM events`) yields exactly one issue in total, for that alias failing
\* camelCase, and no issue for the correctly named column/alias pair.
C14_Original ==
    (op = "parsePipe" /\ Lines = <<QueryLine>>) =>
        /\ Len(result) = 1
        /\ result[1].column = SessionId
        /\ includes(result[1].issue, CamelCaseWord)

\* ------------------------------------------------------------------------
\* C15
\* ------------------------------------------------------------------------

\* C15: every issue returned by parseDatasource carries as `line` the
\* 1-based index, within the whole content split on newline characters
\* (header, blank and comment lines all counted), of the line on which the
\* offending column appears.
C15_LineNumbers ==
    op = "parseDatasource" =>
        LET lines == Lines IN
        \A k \in 1..Len(result) :
            /\ result[k].line \in 1..Len(lines)
            /\ columnMatch(trim(lines[result[k].line])) = result[k].column

\* An issue on the fourth line of a content whose lines before it are a
\* header, a blank line and a comment.
C15_Witness ==
    /\ op = "parseDatasource"
    /\ Len(result) = 1
    /\ result[1].line = 4
    /\ Lines[2] = EmptyLine
    /\ Lines[3] = CommentLine

\* ------------------------------------------------------------------------
\* C16
\* ------------------------------------------------------------------------

\* the column `userId`
UserId == <<"u", "s", "e", "r", "I", "d">>

\* The header `SCHEMA >` followed by the three lines of the section.
SchemaScenario ==
    <<SchemaHeader, UserIdSnakeLine, UserIdCamelLine, SessionIdLine>>

\* C16 as stated: for a schema section consisting of the lines
\* `user_id String,` then `userId String,` then `session_id String`,
\* parseDatasource yields exactly one issue, located at line 2, naming column
\* `userId`, whose message contains the substring "snake_case".
C16_Original ==
    (op = "parseDatasource" /\ Lines = SchemaScenario) =>
        /\ Len(result) = 1
        /\ OneSnakeCaseIssue(2, UserId)

\* C16 amended: for a content whose line h is the header `SCHEMA >` and
\* whose next three lines are `user_id String,` then `userId String,` then
\* `session_id String`, parseDatasource yields exactly one issue for these
\* lines, located at line h + 2 of the content (line 3 when the header is the
\* first line, and then it is the only issue), naming column `userId`, whose
\* message contains the substring "snake_case".
C16_ScenarioLine ==
    op = "parseDatasource" =>
        LET lines == Lines IN
        \A h \in 1..(Len(lines) - 3) :
            SubSeq(lines, h, h + 3) = SchemaScenario =>
                /\ IssuesAt(h) = <<>>
                /\ IssuesAt(h + 1) = <<>>
                /\ OneSnakeCaseIssue(h + 2, UserId)
                /\ IssuesAt(h + 3) = <<>>
                /\ (h = 1 /\ Len(lines) = 4) => Len(result) = 1

\* The scenario with the header on the first line: one issue, at line 3.
C16_Witness ==
    /\ op = "parseDatasource"
    /\ Lines = SchemaScenario
    /\ Len(result) = 1
    /\ result[1].line = 3
    /\ result[1].column = UserId

\* ------------------------------------------------------------------------
\* C17
\* ------------------------------------------------------------------------

\* C17: parseIncl is equivalent to parsePipe: for every content and
\* filename, parseIncl(content, filename) returns the same issue list (same
\* issues, same order, same fields) as parsePipe(content, filename).
C17_InclIsPipe ==
    op = "parseIncl" => result = parsePipe(content.text, content.filename)

\* A call of parseIncl that returns issues for a column and for an alias.
C17_Witness ==
    /\ op = "parseIncl"
    /\ Len(result) >= 2
    /\ \E k \in 1..Len(result) : includes(result[k].issue, SnakeCaseWord)
    /\ \E k \in 1..Len(result) : includes(result[k].issue, CamelCaseWord)

\* ------------------------------------------------------------------------
\* C18
\* ------------------------------------------------------------------------

\* The path ends with one of the three Tinybird extensions.
IsTinybirdPath(path) ==
    \/ endsWith(path, DatasourceExt)
    \/ endsWith(path, PipeExt)
    \/ endsWith(path, InclExt)

\* The Tinybird files of the directory.
Discovered == {f \in DirectoryFiles :
                  /\ \E i \in 1..Len(cli.directory) : cli.directory[i] = f
                  /\ IsTinybirdPath(f.path)}

\* The scan completes: no glob and no read of a discovered file fails.
ScanCompletes == ~cli.globFails /\ \A f \in Discovered : f.readable

\* Some discovered file has an issue under the parser of its extension.
SomeIssue == \E f \in Discovered : ParseFile(f) # <<>>

\* C18: lintTinybirdFiles processes every discovered .datasource, .pipe and
\* .incl file and the process exit status is 0 exactly when the scan
\* completes with an aggregate issue count of zero (including the case where
\* no files are found); it is 1 when at least one issue was found in any
\* file, and a failing file read or glob is surfaced as a fatal error with
\* exit status 1. The verbose flag never changes the status. (The runs are
\* those in which main calls lintTinybirdFiles; --help exits before that.)
C18_ExitStatus ==
    (cli.pc = "exited" /\ ~cli.help) =>
        /\ cli.exitCode \in {0, 1}
        /\ cli.exitCode = 0 <=> (ScanCompletes /\ ~SomeIssue)
        /\ Len(cli.allIssues) > 0 => cli.exitCode = 1
        /\ ScanCompletes =>
              /\ {cli.checked[i] : i \in 1..Len(cli.checked)}
                    = {f.path : f \in Discovered}
              /\ Len(cli.checked) = Cardinality(Discovered)

\* A verbose run over two files that ends with status 1 because of the
\* issues of the second file.
C18_Witness ==
    /\ cli.pc = "exited"
    /\ cli.verbose
    /\ ~cli.help
    /\ Len(cli.checked) = 2
    /\ ParseFile(cli.allFiles[1]) = <<>>
    /\ Len(cli.allIssues) > 1
    /\ cli.exitCode = 1

\* ------------------------------------------------------------------------
\* C21
\* ------------------------------------------------------------------------

\* The object literal has an entry that is not a plain property with a
\* string-literal value.
HasNonStringEntry(n) ==
    \E i \in 1..Len(n) :
        n[i].type # "Property" \/ n[i].valueType # "StringLiteral"

\* Entry i of the object literal is a pair of non-empty strings that breaks
\* one of the mapping checks.
IsViolatingPair(n, i) ==
    /\ IsPair(n, i)
    /\ n[i].key # <<>>
    /\ n[i].value # <<>>
    /\ PriorityMessages(n[i].key, n[i].value) # <<>>

\* C21: the camel-snake-mapping rule treats an object literal as a mapping
\* object only when it is non-empty and every entry is a plain property whose
\* value is a string literal; for any object with zero properties or with at
\* least one non-string-literal value (or spread/non-Property entry) the rule
\* reports nothing at all, even for pairs in that object that would otherwise
\* violate the mapping checks.
C21_NonMappingSilent ==
    (op = "camelSnakeMapping" /\ (Len(node) = 0 \/ HasNonStringEntry(node)))
        => result = <<>>

\* A visit of an object literal with a pair that breaks a mapping check next
\* to an entry that is not a string-valued property: nothing is reported.
C21_Witness ==
    /\ op = "camelSnakeMapping"
    /\ HasNonStringEntry(node)
    /\ \E i \in 1..Len(node) : IsViolatingPair(node, i)
    /\ result = <<>>

\* ------------------------------------------------------------------------
\* C22
\* ------------------------------------------------------------------------

\* Line j of lines starts a schema section.
IsSchemaLine(lines, j) == startsWith(toUpperCase(trim(lines[j])), SCHEMA)

\* Line j of lines starts with ENGINE.
IsEngineLine(lines, j) == startsWith(toUpperCase(trim(lines[j])), ENGINE)

\* Line j of lines is an empty line after the schema: an empty line of a
\* schema section.
IsEmptyLineAfterSchema(lines, j) ==
    trim(lines[j]) = <<>> /\ InSchemaSectionAt(lines, j)

\* C22: parseDatasource leaves the schema section on a line starting with
\* ENGINE or on an empty line after the schema: column lines that follow
\* such a line are not checked (until another line starting with SCHEMA
\* re-opens the section).
C22_Original ==
    op = "parseDatasource" =>
        LET lines == Lines IN
        \A i \in 1..Len(lines) :
            (\E j \in 1..(i - 1) :
                /\ IsEngineLine(lines, j) \/ IsEmptyLineAfterSchema(lines, j)
                /\ \A k \in (j + 1)..(i - 1) : ~IsSchemaLine(lines, k))
            => IssuesAt(i) = <<>>

\* ------------------------------------------------------------------------
\* C23
\* ------------------------------------------------------------------------

\* C23: parseDatasource only ever reports lines that lie inside a schema
\* section: an issue exists for a line only if some earlier line starts
\* (case-insensitively, after trimming) with SCHEMA and no line starting with
\* ENGINE lies between them. Content with no SCHEMA line yields an empty
\* issue list, the SCHEMA header line itself is never reported, and at most
\* one issue is produced per line.
C23_SectionOnly ==
    op = "parseDatasource" =>
        LET lines == Lines IN
        /\ \A k \in 1..Len(result) : result[k].line \in 1..Len(lines)
        /\ \A i \in 1..Len(lines) :
              /\ IssuesAt(i) # <<>> => InSchemaSectionAt(lines, i)
              /\ IsSchemaLine(lines, i) => IssuesAt(i) = <<>>
              /\ Len(IssuesAt(i)) <= 1
        /\ (\A j \in 1..Len(lines) : ~IsSchemaLine(lines, j)) => result = <<>>

\* A camelCase column line before the header goes unreported while the same
\* line inside the section is reported.
C23_Witness ==
    /\ op = "parseDatasource"
    /\ Len(Lines) >= 3
    /\ Lines[1] = UserIdCamelLine
    /\ Lines[2] = SchemaHeader
    /\ Lines[3] = UserIdCamelLine
    /\ IssuesAt(1) = <<>>
    /\ Len(IssuesAt(3)) = 1

\* ------------------------------------------------------------------------
\* C24
\* ------------------------------------------------------------------------

IsWellFormedSnake(s) ==
    /\ Len(s) > 0
    /\ s[1] \in LowerChars
    /\ CharsOf(s) \cap UpperChars = {}
    /\ ~\E i \in 1..(Len(s) - 1) : s[i] = "_" /\ s[i + 1] = "_"
    /\ s[Len(s)] # "_"

\* C25: for every string s accepted by isCamelCase, camelToSnake(s) is
\* accepted by isSnakeCase (no uppercase letter, no double or trailing
\* underscore, lowercase-letter start); hence the expected value
\* camelToSnake(key) of a camelCase key is always valid snake_case, and
\* validateMapping(k, v) with camelCase k implies isSnakeCase(v).
C25_SnakeOfCamel ==
    /\ (op = "camelToSnake" /\ isCamelCase(name)) =>
          /\ isSnakeCase(result)
          /\ IsWellFormedSnake(result)
    /\ (op = "validateMapping" /\ result = TRUE /\ isCamelCase(name)) =>
          isSnakeCase(value)

\* A conversion of a camelCase string in which a digit boundary and an
\* acronym boundary each give an underscore.
C25_Witness ==
    /\ op = "camelToSnake"
    /\ isCamelCase(name)
    /\ \E i \in 1..Len(name) : BoundaryB(name, i)
    /\ \E i \in 2..Len(name) : name[i - 1] \in DigitChars /\ BoundaryA(name, i)
    /\ isSnakeCase(result)
    /\ Cardinality({i \in 1..Len(result) : result[i] = "_"}) = 2

\* ------------------------------------------------------------------------
\* C26
\* ------------------------------------------------------------------------

\* C26: for every string s accepted by isSnakeCase, snakeToCamel(s) is
\* accepted by isCamelCase and contains no underscore (every underscore of a
\* valid snake_case string is followed by a lowercase letter or digit and is
\* therefore removed).
C26_CamelOfSnake ==
    (op = "snakeToCamel" /\ isSnakeCase(name)) =>
        /\ isCamelCase(result)
        /\ "_" \notin CharsOf(result)
        /\ \A i \in 1..Len(name) :
              name[i] = "_" =>
                  i < Len(name) /\ name[i + 1] \in LowerChars \cup DigitChars

\* A conversion of a snake_case string with an underscore before a digit and
\* an underscore before a letter.
C26_Witness ==
    /\ op = "snakeToCamel"
    /\ isSnakeCase(name)
    /\ \E i \in 1..(Len(name) - 1) : name[i] = "_" /\ name[i + 1] \in DigitChars
    /\ \E i \in 1..(Len(name) - 1) : name[i] = "_" /\ name[i + 1] \in LowerChars
    /\ isCamelCase(result)
    /\ Len(result) = Len(name) - 2

\* ------------------------------------------------------------------------
\* C27
\* ------------------------------------------------------------------------

\* C27: conversion is stable after one round trip: for every string s
\* accepted by isCamelCase, camelToSnake(snakeToCamel(camelToSnake(s))) is
\* exactly equal to camelToSnake(s), i.e. the canonical camelCase form
\* snakeToCamel(camelToSnake(s)) maps to the same snake_case name as s even
\* when s contains acronym runs.
C27_StableAfterRoundTrip ==
    (op = "camelRoundTrip" /\ isCamelCase(name)) =>
        /\ result = snakeToCamel(camelToSnake(name))
        /\ camelToSnake(result) = camelToSnake(name)

\* A round trip of a camelCase string with an acronym run: the canonical form
\* differs from the string and has the same snake_case name, which has an
\* underscore.
C27_Witness ==
    /\ op = "camelRoundTrip"
    /\ isCamelCase(name)
    /\ HasAdjacentUpper(name)
    /\ result # name
    /\ "_" \in CharsOf(camelToSnake(name))
    /\ camelToSnake(result) = camelToSnake(name)

====
